---- MODULE Spec2Model ----
(***************************************************************************)
(* Model of the unit cost calculator of frontend/src/App.jsx: the React    *)
(* component's state, its event handlers (handleCalculate, loadExample,    *)
(* toggleExpanded, startEdit, cancelEdit, saveEdit, the onChange handlers  *)
(* of the inputs) and the pure helper parsePackageSize.                    *)
(*                                                                         *)
(* JavaScript strings are sequences of one-character strings.              *)
(* JavaScript numbers are exact fractions <<n, d>> in lowest terms, d >= 0:*)
(* d > 0 is the finite number n/d, <<1,0>> is Infinity, <<-1,0>> is        *)
(* -Infinity and <<0,0>> is NaN.  The rounding of IEEE doubles is not      *)
(* modelled: arithmetic is the exact arithmetic the doubles approximate.   *)
(* Array positions are 1-based here (position i is index i-1 of the code); *)
(* null is 0 for an index and the empty sequence for an object.            *)
(***************************************************************************)
EXTENDS Integers, Sequences, FiniteSets, TLC

VARIABLES recipe, yield_, loading, result, error,
          editingIndex, editPackageSize, editPackagePrice, expandedIndex,
          alertMsg, sizeStr, parsed, pc

vars == <<recipe, yield_, loading, result, error,
          editingIndex, editPackageSize, editPackagePrice, expandedIndex,
          alertMsg, sizeStr, parsed, pc>>

----------------------------------------------------------------------------
(* Numbers *)

Abs(n) == IF n < 0 THEN -n ELSE n

Sign(n) == IF n < 0 THEN -1 ELSE IF n > 0 THEN 1 ELSE 0

RECURSIVE GCD(_, _)
GCD(a, b) == IF b = 0 THEN a ELSE GCD(b, a % b)

\* The number n/d in lowest terms; d = 0 gives Infinity, -Infinity or NaN.
Num(n, d) ==
    IF d = 0 THEN <<Sign(n), 0>>
    ELSE LET g == GCD(Abs(n), d) IN <<n \div g, d \div g>>

NaN == <<0, 0>>

isNaN(x) == x = NaN

IsFinite(x) == x[2] > 0

FromInt(n) == <<n, 1>>

\* a + b
Plus(a, b) ==
    IF a[2] = 0 /\ b[2] = 0
    THEN (IF a = b THEN a ELSE NaN)
    ELSE Num(a[1] * b[2] + b[1] * a[2], a[2] * b[2])

\* a * b
Times(a, b) == Num(a[1] * b[1], a[2] * b[2])

\* a / b
Divide(a, b) == Num(a[1] * b[2] * (IF b[1] < 0 THEN -1 ELSE 1), a[2] * Abs(b[1]))

\* a <= 0 and a < 0 (false of NaN, as every comparison with NaN is)
LeqZero(a) == ~isNaN(a) /\ a[1] <= 0

LessZero(a) == ~isNaN(a) /\ a[1] < 0

RECURSIVE Pow10(_)
Pow10(k) == IF k = 0 THEN 1 ELSE 10 * Pow10(k - 1)

----------------------------------------------------------------------------
(* Characters and strings *)

Digits == <<"0", "1", "2", "3", "4", "5", "6", "7", "8", "9">>

IsDigit(c) == \E i \in 1..10 : Digits[i] = c

DigitVal(c) == (CHOOSE i \in 1..10 : Digits[i] = c) - 1

\* \s of a regular expression and the white space parseFloat and trim skip.
IsSpace(c) == c \in {" ", "\t", "\n"}

\* String.prototype.toLowerCase, on the letters of the unit tokens.
toLowerCase(c) ==
    CASE c = "G" -> "g"
      [] c = "K" -> "k"
      [] c = "M" -> "m"
      [] c = "L" -> "l"
      [] c = "I" -> "i"
      [] c = "T" -> "t"
      [] c = "E" -> "e"
      [] OTHER -> c

LowerStr(s) == [i \in 1..Len(s) |-> toLowerCase(s[i])]

\* The first position >= i of s that holds no digit (Len(s)+1 when none).
RECURSIVE SkipDigits(_, _)
SkipDigits(s, i) ==
    IF i <= Len(s) /\ IsDigit(s[i]) THEN SkipDigits(s, i + 1) ELSE i

\* The first position >= i of s that holds no white space.
RECURSIVE SkipSpaces(_, _)
SkipSpaces(s, i) ==
    IF i <= Len(s) /\ IsSpace(s[i]) THEN SkipSpaces(s, i + 1) ELSE i

\* The value of the decimal digits s[i..j-1] (0 for none).
RECURSIVE DigitsValue(_, _, _)
DigitsValue(s, i, j) ==
    IF j <= i THEN 0 ELSE 10 * DigitsValue(s, i, j - 1) + DigitVal(s[j - 1])

\* Whether token t stands at position i of s.
StartsWithAt(s, i, t) ==
    /\ i + Len(t) - 1 <= Len(s)
    /\ \A k \in 1..Len(t) : s[i + k - 1] = t[k]

\* The decimal digits of the natural number n.
RECURSIVE NatToString(_)
NatToString(n) ==
    IF n < 10 THEN <<Digits[n + 1]>>
    ELSE NatToString(n \div 10) \o <<Digits[(n % 10) + 1]>>

RECURSIVE Zeros(_)
Zeros(k) == IF k <= 0 THEN <<>> ELSE <<"0">> \o Zeros(k - 1)

----------------------------------------------------------------------------
(* Conversions between numbers and strings *)

\* The global parseFloat: white space is skipped, then the longest prefix
\* that is a decimal literal (sign, digits, fraction, exponent) is the value;
\* what follows it is ignored, and no such prefix gives NaN.  The literal is
\* read left to right: the sign at i0, the digits i1..j-1, the fraction
\* j+1..k-1 after a point at j, the exponent after an e at k.
SignAt(s, i) == IF i <= Len(s) /\ s[i] = "-" THEN -1 ELSE 1

AfterSign(s, i) == IF i <= Len(s) /\ s[i] \in {"+", "-"} THEN i + 1 ELSE i

FractionEnd(s, j) == IF j <= Len(s) /\ s[j] = "." THEN SkipDigits(s, j + 1) ELSE j

ExponentAt(s, k) ==
    LET p == AfterSign(s, k + 1)
    IN  IF k <= Len(s) /\ s[k] \in {"e", "E"} /\ SkipDigits(s, p) > p
        THEN SignAt(s, k + 1) * DigitsValue(s, p, SkipDigits(s, p))
        ELSE 0

Decimal(sgn, mant, fracLen, ex) ==
    IF ex >= 0 THEN Num(sgn * mant * Pow10(ex), Pow10(fracLen))
    ELSE Num(sgn * mant, Pow10(fracLen) * Pow10(-ex))

LiteralValue(s, sgn, i1, j, k) ==
    LET fracLen == IF k > j THEN k - (j + 1) ELSE 0
    IN  IF j = i1 /\ fracLen = 0 THEN NaN
        ELSE Decimal(sgn, DigitsValue(s, i1, j) * Pow10(fracLen) + DigitsValue(s, j + 1, k),
                     fracLen, ExponentAt(s, k))

LiteralFrom(s, sgn, i1, j) == LiteralValue(s, sgn, i1, j, FractionEnd(s, j))

LiteralAt(s, i0) ==
    LiteralFrom(s, SignAt(s, i0), AfterSign(s, i0), SkipDigits(s, AfterSign(s, i0)))

parseFloat(s) == LiteralAt(s, SkipSpaces(s, 1))

\* Whether d has no prime factor but 2 and 5 (n/d is then a finite decimal).
RECURSIVE IsDecimalDenominator(_)
IsDecimalDenominator(d) ==
    IF d = 1 THEN TRUE
    ELSE IF d % 2 = 0 THEN IsDecimalDenominator(d \div 2)
    ELSE IF d % 5 = 0 THEN IsDecimalDenominator(d \div 5)
    ELSE FALSE

\* The least k >= k0 with d dividing 10^k.
RECURSIVE DecimalPlaces(_, _)
DecimalPlaces(d, k0) ==
    IF Pow10(k0) % d = 0 THEN k0 ELSE DecimalPlaces(d, k0 + 1)

\* The digits of a finite decimal > 0 with k digits after the point, as
\* Number.prototype.toString places them: with a decimal point where the
\* value is at least 1e-6 and in exponent form below that (a value of 1e21
\* or more is out of range of the integers of the model).
PlaceDigits(digits, k) ==
    LET L == Len(digits)
        n == L - k
    IN  IF k = 0 THEN digits
        ELSE IF n > 0 THEN SubSeq(digits, 1, n) \o <<".">> \o SubSeq(digits, n + 1, L)
        ELSE IF n > -6 THEN <<"0", ".">> \o Zeros(-n) \o digits
        ELSE <<digits[1]>>
             \o (IF L > 1 THEN <<".">> \o SubSeq(digits, 2, L) ELSE <<>>)
             \o <<"e", "-">> \o NatToString(1 - n)

PositiveToString(x) ==
    PlaceDigits(NatToString(x[1] * (Pow10(DecimalPlaces(x[2], 0)) \div x[2])),
                DecimalPlaces(x[2], 0))

\* Number.prototype.toString (radix 10), also what a template literal gives.
NumberToString(x) ==
    IF isNaN(x) THEN <<"N", "a", "N">>
    ELSE IF x[2] = 0
    THEN (IF x[1] < 0 THEN <<"-">> ELSE <<>>) \o <<"I", "n", "f", "i", "n", "i", "t", "y">>
    ELSE IF ~IsDecimalDenominator(x[2])
    THEN \* not a finite decimal: no number the program writes out is one
         (IF x[1] < 0 THEN <<"-">> ELSE <<>>)
         \o NatToString(Abs(x[1]) \div x[2]) \o <<".", "~">>
    ELSE IF x[1] < 0 THEN <<"-">> \o PositiveToString(<<-x[1], x[2]>>)
    ELSE PositiveToString(x)

\* The price written by toString in place of toFixed(2): "8", not "8.00".
toFixed2_asToString(x) == NumberToString(x)

\* Number.prototype.toFixed(2): the nearest multiple of 0.01, the larger one
\* of two equally near, with exactly two digits after the point.
toFixed2(x) ==
    IF x[2] = 0 THEN NumberToString(x)
    ELSE LET a == Abs(x[1])
             cents == (200 * a + x[2]) \div (2 * x[2])
             frac == cents % 100
         IN  (IF x[1] < 0 THEN <<"-">> ELSE <<>>)
             \o NatToString(cents \div 100) \o <<".">>
             \o <<Digits[(frac \div 10) + 1], Digits[(frac % 10) + 1]>>

----------------------------------------------------------------------------
(* parsePackageSize *)

STR_g == <<"g">>
STR_kg == <<"k", "g">>
STR_ml == <<"m", "l">>
STR_l == <<"l">>
STR_item == <<"i", "t", "e", "m">>

\* The alternatives of the second group, g|kg|ml|L|item, in their order.
UnitAlternatives == <<STR_g, STR_kg, STR_ml, STR_l, STR_item>>

\* One attempt of /(\d+(?:\.\d+)?)\s*(g|kg|ml|L|item)/i at position i of s:
\* <<>> when it fails, else <<[num |-> group 1, unit |-> group 2]>>.
\* \d+ takes the whole run of digits i..j-1, the optional fraction is taken
\* when a point and a digit follow (the number ends before k), \s* takes the
\* whole run of white space (up to u), and the first alternative that stands
\* at u, letter case ignored, is the unit.  Backtracking finds no other
\* match: a shorter \d+, fraction or \s* leaves a digit, a point or a white
\* space where the unit token has to start.
MatchUnit(s, i, k, u) ==
    LET alts == {a \in 1..Len(UnitAlternatives) :
                    StartsWithAt(LowerStr(s), u, UnitAlternatives[a])}
    IN  IF alts = {} THEN <<>>
        ELSE <<[num |-> SubSeq(s, i, k - 1),
                unit |-> SubSeq(s, u, u + Len(UnitAlternatives[
                            CHOOSE a \in alts : \A b \in alts : a <= b]) - 1)]>>

MatchSpaces(s, i, k) == MatchUnit(s, i, k, SkipSpaces(s, k))

MatchNumber(s, i, j) ==
    IF j = i THEN <<>>
    ELSE MatchSpaces(s, i, IF j + 1 <= Len(s) /\ s[j] = "." /\ IsDigit(s[j + 1])
                           THEN SkipDigits(s, j + 1) ELSE j)

MatchAt(s, i) == MatchNumber(s, i, SkipDigits(s, i))

\* String.prototype.match without the g flag: the match at the leftmost
\* position that has one, tried from position i on.
RECURSIVE MatchFrom(_, _)
MatchFrom(s, i) ==
    IF i > Len(s) THEN <<>>
    ELSE IF MatchAt(s, i) # <<>> THEN MatchAt(s, i)
    ELSE MatchFrom(s, i + 1)

\* if (unit === 'kg') value *= 1000;  if (unit === 'l') value *= 1000;
scaleKg(value, unit) == IF unit = STR_kg THEN Times(value, FromInt(1000)) ELSE value

\* scaleL comparing the lower-cased token with the upper-case 'L'.
scaleL_upperCase(value, unit) ==
    IF unit = <<"L">> THEN Times(value, FromInt(1000)) ELSE value

scaleL(value, unit) == IF unit = STR_l THEN Times(value, FromInt(1000)) ELSE value

\* unit === 'item' ? 'item' : (unit === 'ml' || unit === 'l' ? 'ml' : 'g')
baseUnit(unit) ==
    IF unit = STR_item THEN STR_item
    ELSE IF unit = STR_ml \/ unit = STR_l THEN STR_ml
    ELSE STR_g

\* What parsePackageSize returns for the groups num and unit of a match.
normalized(num, unit) ==
    [value |-> scaleL(scaleKg(parseFloat(num), unit), unit), unit |-> baseUnit(unit)]

\* parsePackageSize(sizeStr): null (<<>>) when the pattern is found nowhere
\* in sizeStr, else <<[value, unit]>> in base units.
parseMatch(match) ==
    IF match = <<>> THEN <<>>
    ELSE <<normalized(match[1].num, LowerStr(match[1].unit))>>

parsePackageSize(sizeStr0) == parseMatch(MatchFrom(sizeStr0, 1))

----------------------------------------------------------------------------
(* The state of the component and what reaches it from outside *)

null == <<>>

noIndex == 0

\* exampleRecipe (its first word: no handler reads more of a recipe than
\* whether it is blank) and the yield loadExample sets.
exampleRecipe == <<"C", "h", "o", "c", "o", "l", "a", "t", "e">>

exampleYield == <<"6">>

\* What the user types into the recipe text area and into the yield input.
RecipeTexts == {<<" ">>}

YieldTexts == {<<>>}

\* What the user types into the package size and package price inputs.
SizeTexts == {<<"5", "0", "0">>, <<"0">>, <<"a", "b", "c">>}

PriceTexts == {<<"4", ".", "0", "0">>, <<"0">>, <<"-", "1">>, <<"a", "b", "c">>}

\* Whether s is a valid floating-point number of HTML: an optional "-",
\* digits with an optional fraction or a fraction alone, an optional exponent.
ValidExponent(s, k) ==
    IF k <= Len(s) /\ s[k] \in {"e", "E"}
    THEN LET p == AfterSign(s, k + 1)
         IN  SkipDigits(s, p) > p /\ SkipDigits(s, p) = Len(s) + 1
    ELSE k = Len(s) + 1

ValidMantissa(s, i1, j) ==
    IF j <= Len(s) /\ s[j] = "."
    THEN SkipDigits(s, j + 1) > j + 1 /\ ValidExponent(s, SkipDigits(s, j + 1))
    ELSE j > i1 /\ ValidExponent(s, j)

ValidFrom(s, i1) == ValidMantissa(s, i1, SkipDigits(s, i1))

IsValidFloatingPointNumber(s) ==
    ValidFrom(s, IF Len(s) >= 1 /\ s[1] = "-" THEN 2 ELSE 1)

\* e.target.value of an <input type="number"> the user typed text into:
\* the text when it is a valid floating-point number, else the empty string.
numberInputValue(text) == IF IsValidFloatingPointNumber(text) THEN text ELSE <<>>

\* !s.trim()
IsBlank(s) == \A i \in 1..Len(s) : IsSpace(s[i])

\* A package_info object.
PackageInfo(size, price, cost_per_unit, unit) ==
    [size |-> size, price |-> price, cost_per_unit |-> cost_per_unit, unit |-> unit]

\* An ingredient of a response: package_info is <<>> (absent) or <<object>>;
\* a response carries no manually_adjusted (undefined, falsy).
Ingredient(name, quantity, unit, cost, note, package_info) ==
    [ingredient |-> name, quantity |-> quantity, unit |-> unit, cost |-> cost,
     note |-> note, manually_adjusted |-> FALSE, package_info |-> package_info]

\* The bodies the pricing service answers with (response.json()): the cost
\* of a line with a package is cost_per_unit * quantity, total_cost is the
\* sum of the costs and unit_cost is total_cost / yield_count.
Response1 ==
    [recipe_name |-> "Protein Cookies",
     ingredients |-> <<
        Ingredient("oats", FromInt(60), STR_g, Num(105, 227), "",
                   <<PackageInfo(<<"4", "5", "4", "g">>, Num(7, 2), Num(7, 908), STR_g)>>),
        Ingredient("egg", FromInt(1), STR_item, Num(1, 4), "",
                   <<PackageInfo(<<"1", "2", " ", "i", "t", "e", "m">>, FromInt(3), Num(1, 4), STR_item)>>) >>,
     total_cost |-> Num(647, 908),
     yield_count |-> 6,
     unit_cost |-> Num(647, 5448)]

Response2 ==
    [recipe_name |-> "",
     ingredients |-> <<
        Ingredient("vanilla", FromInt(1), STR_item, Num(11, 50), "price estimated", <<>>),
        Ingredient("butter", FromInt(100), STR_g, Num(4, 5), "salted",
                   <<PackageInfo(<<"1", "k", "g">>, FromInt(8), Num(1, 125), STR_g)>>),
        Ingredient("milk", FromInt(250), STR_ml, Num(1, 2), "",
                   <<PackageInfo(<<"1", "L">>, FromInt(2), Num(1, 500), STR_ml)>>) >>,
     total_cost |-> Num(38, 25),
     yield_count |-> 2,
     unit_cost |-> Num(19, 25)]

Responses == {Response1, Response2}

----------------------------------------------------------------------------
(* What the render offers *)

R == result[1]

Indices == IF result = null THEN {} ELSE 1..Len(R.ingredients)

hasPackageInfo(ing) == ing.package_info # <<>>

\* The "show details" / "hide details" button of row idx is rendered.
toggleOffered(idx) == idx \in Indices /\ hasPackageInfo(R.ingredients[idx])

\* The details row rendered on expandedIndex === idx alone.
detailsShown_unguarded(idx) == idx \in Indices /\ expandedIndex = idx

\* The details row of row idx is rendered: expandedIndex === idx && ing.package_info.
detailsShown(idx) ==
    idx \in Indices /\ expandedIndex = idx /\ hasPackageInfo(R.ingredients[idx])

\* The details row of idx holds the edit form (the inputs, Save, Cancel).
editFormShown(idx) == detailsShown(idx) /\ editingIndex = idx

\* The details row of idx holds the pricing details and the Edit button.
editOffered(idx) == detailsShown(idx) /\ editingIndex # idx

----------------------------------------------------------------------------
(* The handlers *)

MsgRecipe == "Please enter a recipe"
MsgYield == "Please enter the yield (number of items)"
MsgFailed == "Failed to calculate cost"
MsgSize == "Please enter a valid package size"
MsgPrice == "Please enter a valid package price"

\* No handler touches the text and the outcome of the normalizer run alone.
Unused == UNCHANGED <<sizeStr, parsed>>

\* onChange of the recipe text area and of the yield input.
setRecipe(text) ==
    /\ recipe' = text
    /\ alertMsg' = ""
    /\ UNCHANGED <<yield_, loading, result, error, editingIndex, editPackageSize,
                   editPackagePrice, expandedIndex, pc>>
    /\ Unused

setYield(text) ==
    /\ yield_' = numberInputValue(text)
    /\ alertMsg' = ""
    /\ UNCHANGED <<recipe, loading, result, error, editingIndex, editPackageSize,
                   editPackagePrice, expandedIndex, pc>>
    /\ Unused

\* handleCalculate without its setEditingIndex(null).
handleCalculate_keepsEditing ==
    /\ ~loading
    /\ alertMsg' = ""
    /\ IF IsBlank(recipe)
       THEN /\ error' = MsgRecipe
            /\ UNCHANGED <<loading, result, pc>>
       ELSE IF IsBlank(yield_)
       THEN /\ error' = MsgYield
            /\ UNCHANGED <<loading, result, pc>>
       ELSE /\ loading' = TRUE
            /\ error' = ""
            /\ result' = null
            /\ pc' = "fetch"
    /\ UNCHANGED <<recipe, yield_, editingIndex, editPackageSize, editPackagePrice,
                   expandedIndex>>
    /\ Unused

\* handleCalculate up to its await: the button is disabled while loading.
handleCalculate ==
    /\ ~loading
    /\ alertMsg' = ""
    /\ IF IsBlank(recipe)
       THEN /\ error' = MsgRecipe
            /\ UNCHANGED <<loading, result, editingIndex, pc>>
       ELSE IF IsBlank(yield_)
       THEN /\ error' = MsgYield
            /\ UNCHANGED <<loading, result, editingIndex, pc>>
       ELSE /\ loading' = TRUE
            /\ error' = ""
            /\ result' = null
            /\ editingIndex' = noIndex
            /\ pc' = "fetch"
    /\ UNCHANGED <<recipe, yield_, editPackageSize, editPackagePrice, expandedIndex>>
    /\ Unused

\* handleCalculate after its await, the response being ok with body data.
fetchResolved(data) ==
    /\ pc = "fetch"
    /\ result' = <<data>>
    /\ loading' = FALSE
    /\ pc' = "idle"
    /\ alertMsg' = ""
    /\ UNCHANGED <<recipe, yield_, error, editingIndex, editPackageSize,
                   editPackagePrice, expandedIndex>>
    /\ Unused

\* handleCalculate after its await, the response not being ok.
fetchFailed ==
    /\ pc = "fetch"
    /\ error' = MsgFailed
    /\ loading' = FALSE
    /\ pc' = "idle"
    /\ alertMsg' = ""
    /\ UNCHANGED <<recipe, yield_, result, editingIndex, editPackageSize,
                   editPackagePrice, expandedIndex>>
    /\ Unused

loadExample ==
    /\ recipe' = exampleRecipe
    /\ yield_' = exampleYield
    /\ error' = ""
    /\ result' = null
    /\ alertMsg' = ""
    /\ UNCHANGED <<loading, editingIndex, editPackageSize, editPackagePrice,
                   expandedIndex, pc>>
    /\ Unused

toggleExpanded(index) ==
    /\ toggleOffered(index)
    /\ expandedIndex' = IF expandedIndex = index THEN noIndex ELSE index
    /\ alertMsg' = ""
    /\ UNCHANGED <<recipe, yield_, loading, result, error, editingIndex,
                   editPackageSize, editPackagePrice, pc>>
    /\ Unused

\* parsed ? parsed.value.toString() : ''
draftSize(p) == IF p # null THEN NumberToString(p[1].value) ELSE <<>>

startEdit(index) ==
    /\ editOffered(index)
    /\ IF hasPackageInfo(R.ingredients[index])
       THEN /\ editPackageSize' =
                  draftSize(parsePackageSize(R.ingredients[index].package_info[1].size))
            /\ editPackagePrice' = toFixed2(R.ingredients[index].package_info[1].price)
       ELSE UNCHANGED <<editPackageSize, editPackagePrice>>
    /\ editingIndex' = index
    /\ alertMsg' = ""
    /\ UNCHANGED <<recipe, yield_, loading, result, error, expandedIndex, pc>>
    /\ Unused

\* cancelEdit leaving the two draft texts as they are.
cancelEdit_keepsDraft ==
    /\ \E idx \in Indices : editFormShown(idx)
    /\ editingIndex' = noIndex
    /\ alertMsg' = ""
    /\ UNCHANGED <<recipe, yield_, loading, result, error, expandedIndex, pc,
                   editPackageSize, editPackagePrice>>
    /\ Unused

cancelEdit ==
    /\ \E idx \in Indices : editFormShown(idx)
    /\ editingIndex' = noIndex
    /\ editPackageSize' = <<>>
    /\ editPackagePrice' = <<>>
    /\ alertMsg' = ""
    /\ UNCHANGED <<recipe, yield_, loading, result, error, expandedIndex, pc>>
    /\ Unused

\* onChange of the two inputs of the edit form.
setEditPackageSize(text) ==
    /\ \E idx \in Indices : editFormShown(idx)
    /\ editPackageSize' = numberInputValue(text)
    /\ alertMsg' = ""
    /\ UNCHANGED <<recipe, yield_, loading, result, error, editingIndex,
                   editPackagePrice, expandedIndex, pc>>
    /\ Unused

setEditPackagePrice(text) ==
    /\ \E idx \in Indices : editFormShown(idx)
    /\ editPackagePrice' = numberInputValue(text)
    /\ alertMsg' = ""
    /\ UNCHANGED <<recipe, yield_, loading, result, error, editingIndex,
                   editPackageSize, expandedIndex, pc>>
    /\ Unused

\* The two tests with their comparisons exchanged: a size of 0 passes, a
\* price of 0 does not.
sizeRejected_zeroPasses(packageSize) == isNaN(packageSize) \/ LessZero(packageSize)

priceRejected_zeroFails(packagePrice) == isNaN(packagePrice) \/ LeqZero(packagePrice)

\* isNaN(packageSize) || packageSize <= 0, and the same test of the price.
sizeRejected(packageSize) == isNaN(packageSize) \/ LeqZero(packageSize)

priceRejected(packagePrice) == isNaN(packagePrice) \/ LessZero(packagePrice)

\* ing.unit === 'ml' ? 'ml' : (ing.unit === 'item' ? 'item' : 'g')
displayUnit(ing) ==
    IF ing.unit = STR_ml THEN STR_ml ELSE IF ing.unit = STR_item THEN STR_item ELSE STR_g

\* updatedIngredient built without the spread of ing (the note is lost).
updatedIngredient_noSpread(ing, packageSize, packagePrice) ==
    LET newCostPerUnit == Divide(packagePrice, packageSize)
    IN  [ing EXCEPT
            !.cost = Times(newCostPerUnit, ing.quantity),
            !.note = "",
            !.manually_adjusted = TRUE,
            !.package_info = <<PackageInfo(NumberToString(packageSize) \o displayUnit(ing),
                                           packagePrice, newCostPerUnit, displayUnit(ing))>>]

\* updatedIngredient with the cost per unit taken for the cost of the line.
updatedIngredient_noQuantity(ing, packageSize, packagePrice) ==
    LET newCostPerUnit == Divide(packagePrice, packageSize)
    IN  [ing EXCEPT
            !.cost = newCostPerUnit,
            !.manually_adjusted = TRUE,
            !.package_info = <<PackageInfo(NumberToString(packageSize) \o displayUnit(ing),
                                           packagePrice, newCostPerUnit, displayUnit(ing))>>]

\* updatedIngredient toggling manually_adjusted instead of setting it.
updatedIngredient_toggle(ing, packageSize, packagePrice) ==
    LET newCostPerUnit == Divide(packagePrice, packageSize)
    IN  [ing EXCEPT
            !.cost = Times(newCostPerUnit, ing.quantity),
            !.manually_adjusted = ~ing.manually_adjusted,
            !.package_info = <<PackageInfo(NumberToString(packageSize) \o displayUnit(ing),
                                           packagePrice, newCostPerUnit, displayUnit(ing))>>]

\* updatedIngredient adding the new cost to the cost of a line that was
\* overridden before (the outcome then depends on the earlier edits).
updatedIngredient_accumulates(ing, packageSize, packagePrice) ==
    LET newCostPerUnit == Divide(packagePrice, packageSize)
        newIngredientCost == Times(newCostPerUnit, ing.quantity)
    IN  [ing EXCEPT
            !.cost = IF ing.manually_adjusted THEN Plus(ing.cost, newIngredientCost)
                     ELSE newIngredientCost,
            !.manually_adjusted = TRUE,
            !.package_info = <<PackageInfo(NumberToString(packageSize) \o displayUnit(ing),
                                           packagePrice, newCostPerUnit, displayUnit(ing))>>]

\* The object saveEdit puts at the edited position.
updatedIngredient(ing, packageSize, packagePrice) ==
    LET newCostPerUnit == Divide(packagePrice, packageSize)
        newIngredientCost == Times(newCostPerUnit, ing.quantity)
    IN  [ing EXCEPT
            !.cost = newIngredientCost,
            !.manually_adjusted = TRUE,
            !.package_info = <<PackageInfo(NumberToString(packageSize) \o displayUnit(ing),
                                           packagePrice, newCostPerUnit, displayUnit(ing))>>]

\* [...result.ingredients] with the object at index replaced.
updatedIngredients(res, index, packageSize, packagePrice) ==
    [res.ingredients EXCEPT ![index] = updatedIngredient(@, packageSize, packagePrice)]

\* updatedIngredients.reduce((sum, ing) => sum + ing.cost, 0)
RECURSIVE newTotalCost(_)
newTotalCost(ings) ==
    IF ings = <<>> THEN FromInt(0)
    ELSE Plus(newTotalCost(SubSeq(ings, 1, Len(ings) - 1)), ings[Len(ings)].cost)

\* newUnitCost from result.total_cost, the total before the edit.
newUnitCost_stale(total, res) == Divide(res.total_cost, FromInt(res.yield_count))

newUnitCost(total, res) == Divide(total, FromInt(res.yield_count))

\* {...result, ingredients: updatedIngredients, total_cost, unit_cost}
newResult(res, ings, total) ==
    [res EXCEPT !.ingredients = ings,
                !.total_cost = total,
                !.unit_cost = newUnitCost(total, res)]

\* The totals summed over result.ingredients, the lines before the edit.
recalculated_stale(res, ings) == newResult(res, ings, newTotalCost(res.ingredients))

recalculated(res, ings) == newResult(res, ings, newTotalCost(ings))

\* The object saveEdit hands to setResult.
savedResult(res, index, packageSize, packagePrice) ==
    recalculated(res, updatedIngredients(res, index, packageSize, packagePrice))

\* saveEdit(index) once the two inputs are parsed.
saveParsed(index, packageSize, packagePrice) ==
    IF sizeRejected(packageSize)
    THEN /\ alertMsg' = MsgSize
         /\ UNCHANGED <<result, editingIndex, editPackageSize, editPackagePrice>>
    ELSE IF priceRejected(packagePrice)
    THEN /\ alertMsg' = MsgPrice
         /\ UNCHANGED <<result, editingIndex, editPackageSize, editPackagePrice>>
    ELSE /\ result' = <<savedResult(R, index, packageSize, packagePrice)>>
         /\ editingIndex' = noIndex
         /\ editPackageSize' = <<>>
         /\ editPackagePrice' = <<>>
         /\ alertMsg' = ""

saveEdit(index) ==
    /\ editFormShown(index)
    /\ saveParsed(index, parseFloat(editPackageSize), parseFloat(editPackagePrice))
    /\ UNCHANGED <<recipe, yield_, loading, error, expandedIndex, pc>>
    /\ Unused

\* The useState initial values.
InitComponent ==
    /\ recipe = <<>>
    /\ yield_ = <<>>
    /\ loading = FALSE
    /\ result = null
    /\ error = ""
    /\ editingIndex = noIndex
    /\ editPackageSize = <<>>
    /\ editPackagePrice = <<>>
    /\ expandedIndex = noIndex
    /\ alertMsg = ""
    /\ pc = "idle"

Init ==
    /\ InitComponent
    /\ sizeStr = <<>>
    /\ parsed = <<>>

MaxLines == 3

Next ==
    \/ \E text \in RecipeTexts : setRecipe(text)
    \/ \E text \in YieldTexts : setYield(text)
    \/ handleCalculate
    \/ \E data \in Responses : fetchResolved(data)
    \/ fetchFailed
    \/ loadExample
    \/ \E index \in 1..MaxLines : toggleExpanded(index)
    \/ \E index \in 1..MaxLines : startEdit(index)
    \/ cancelEdit
    \/ \E text \in SizeTexts : setEditPackageSize(text)
    \/ \E text \in PriceTexts : setEditPackagePrice(text)
    \/ \E index \in 1..MaxLines : saveEdit(index)

Spec == Init /\ [][Next]_vars

----------------------------------------------------------------------------
(* The edit form alone: a result on screen, a line open in the form with a
   size and a price typed in *)

\* Pairs of texts typed into the package size and the package price input.
EditDrafts ==
    { <<<<"5", "0", "0">>, <<"4", ".", "0", "0">>>>,
      <<<<"1", ".", "5">>, <<"3">>>>,
      <<<<"0", ".", "2", "5">>, <<"1", ".", "2", "3", "4">>>>,
      <<<<"1", "0", "0", "0">>, <<"1", "2", ".", "0", "0">>>>,
      <<<<"5", "e", "-", "7">>, <<"0", ".", "0", "1">>>> }

\* The component after a calculation of the example recipe has answered,
\* the details of a line were opened, Edit was pressed and the two inputs
\* were typed over.
EditInit ==
    /\ recipe = exampleRecipe
    /\ yield_ = exampleYield
    /\ loading = FALSE
    /\ error = ""
    /\ alertMsg = ""
    /\ pc = "idle"
    /\ sizeStr = <<>>
    /\ parsed = <<>>
    /\ \E data \in Responses :
          /\ result = <<data>>
          /\ \E i \in 1..Len(data.ingredients) :
                /\ hasPackageInfo(data.ingredients[i])
                /\ expandedIndex = i
                /\ editingIndex = i
    /\ \E d \in EditDrafts :
          /\ editPackageSize = numberInputValue(d[1])
          /\ editPackagePrice = numberInputValue(d[2])

EditNext ==
    \/ \E index \in 1..MaxLines : toggleExpanded(index)
    \/ \E index \in 1..MaxLines : startEdit(index)
    \/ cancelEdit
    \/ \E index \in 1..MaxLines : saveEdit(index)

EditSpec == EditInit /\ [][EditNext]_vars

----------------------------------------------------------------------------
(* The normalizer alone: parsePackageSize applied to a text *)

MaxLen == 4

NormAlphabet == {"0", "1", "5", ".", " ", "g", "k", "m", "l", "L", "b"}

\* Texts the normalizer is started on, besides the ones typed.
SizeExamples ==
    { <<>>,
      <<"4", "5", "4", "g">>,
      <<"1", "k", "g">>,
      <<"1", "L">>,
      <<"1", "2", " ", "i", "t", "e", "m">>,
      <<"1", ".", "5", " ", "K", "G">>,
      <<"2", "5", "0", " ", " ", "M", "l">>,
      <<"a", "b", "c">>,
      <<"5", "l", "b">>,
      <<"2", " ", "c", "u", "p", "s">>,
      <<"k", "g">> }

NormInit ==
    /\ InitComponent
    /\ sizeStr \in SizeExamples
    /\ parsed = <<>>

\* One more character of the text.
NormType(c) ==
    /\ parsed = <<>>
    /\ Len(sizeStr) < MaxLen
    /\ sizeStr' = Append(sizeStr, c)
    /\ UNCHANGED <<parsed, recipe, yield_, loading, result, error, editingIndex,
                   editPackageSize, editPackagePrice, expandedIndex, alertMsg, pc>>

\* parsePackageSize(sizeStr); parsed holds what it returned.
NormApply ==
    /\ parsed = <<>>
    /\ parsed' = <<parsePackageSize(sizeStr)>>
    /\ UNCHANGED <<sizeStr, recipe, yield_, loading, result, error, editingIndex,
                   editPackageSize, editPackagePrice, expandedIndex, alertMsg, pc>>

NormNext ==
    \/ \E c \in NormAlphabet : NormType(c)
    \/ NormApply

NormSpec == NormInit /\ [][NormNext]_vars

----------------------------------------------------------------------------
(* The grammar of a package size, as the specification words it *)

\* A sign-free decimal number: digits, or digits, a point and digits.
IsNumeral(s) ==
    /\ Len(s) > 0
    /\ \A i \in 1..Len(s) : IsDigit(s[i]) \/ s[i] = "."
    /\ Cardinality({i \in 1..Len(s) : s[i] = "."}) <= 1
    /\ IsDigit(s[1]) /\ IsDigit(s[Len(s)])

\* The value of a numeral: its digits read as an integer, over ten to the
\* number of digits behind the point.
NumeralValue(s) ==
    LET ds == SelectSeq(s, IsDigit)
        point == {i \in 1..Len(s) : s[i] = "."}
    IN  Num(DigitsValue(ds, 1, Len(ds) + 1),
            Pow10(IF point = {} THEN 0 ELSE Len(s) - (CHOOSE i \in point : TRUE)))

UnitTokens == {STR_g, STR_kg, STR_ml, STR_l, STR_item}

TokenFactor(t) == IF t \in {STR_kg, STR_l} THEN 1000 ELSE 1

TokenBase(t) == IF t \in {STR_g, STR_kg} THEN STR_g
                ELSE IF t \in {STR_ml, STR_l} THEN STR_ml ELSE STR_item

\* s is a numeral (ending at j), white space, and a unit token (from u on).
SplitsAt(s, j, u) ==
    /\ IsNumeral(SubSeq(s, 1, j))
    /\ \A i \in (j + 1)..(u - 1) : IsSpace(s[i])
    /\ LowerStr(SubSeq(s, u, Len(s))) \in UnitTokens

Splits(s) == {ju \in (1..Len(s)) \X (1..Len(s)) : ju[1] < ju[2] /\ SplitsAt(s, ju[1], ju[2])}

InGrammar(s) == Splits(s) # {}

Applied == parsed # <<>>

\* C9: whenever the normalizer is applied to a text that is a number,
\* optional white space and a unit token (in any letter case), it returns
\* the number times 1000 for kg and l and unscaled for g, ml and item, in
\* the base unit g (g, kg), ml (ml, l) or item; a magnitude of 0 is returned
\* like any other; and the four examples of the specification come out as
\* it says.
C9_NormalizeGrammar ==
    Applied =>
        /\ \A ju \in Splits(sizeStr) :
              parsed[1] = <<[value |-> Times(NumeralValue(SubSeq(sizeStr, 1, ju[1])),
                                             FromInt(TokenFactor(LowerStr(SubSeq(sizeStr, ju[2], Len(sizeStr)))))),
                             unit |-> TokenBase(LowerStr(SubSeq(sizeStr, ju[2], Len(sizeStr))))]>>
        /\ sizeStr = <<"4", "5", "4", "g">> => parsed[1] = <<[value |-> <<454, 1>>, unit |-> STR_g]>>
        /\ sizeStr = <<"1", "k", "g">> => parsed[1] = <<[value |-> <<1000, 1>>, unit |-> STR_g]>>
        /\ sizeStr = <<"1", "L">> => parsed[1] = <<[value |-> <<1000, 1>>, unit |-> STR_ml]>>
        /\ sizeStr = <<"1", "2", " ", "i", "t", "e", "m">>
              => parsed[1] = <<[value |-> <<12, 1>>, unit |-> STR_item]>>
        /\ sizeStr = <<"0", "g">> => parsed[1] = <<[value |-> <<0, 1>>, unit |-> STR_g]>>

\* A litre size in upper case has been normalized to 1000 ml.
C9_Witness ==
    /\ sizeStr = <<"1", "L">>
    /\ parsed = << <<[value |-> <<1000, 1>>, unit |-> STR_ml]>> >>

\* C10: whenever the normalizer is applied to a text that is not a number,
\* optional white space and a unit token, it returns null (ParseFailure).
C10_ParseFailureOutsideGrammar ==
    (Applied /\ ~InGrammar(sizeStr)) => parsed[1] = null

----------------------------------------------------------------------------
(* Properties of the recipe result under the edits *)

\* The sum of the costs of the lines, first line first.
RECURSIVE SumOfCosts(_)
SumOfCosts(ings) ==
    IF ings = <<>> THEN FromInt(0) ELSE Plus(Head(ings).cost, SumOfCosts(Tail(ings)))

Adjusted == {i \in Indices : R.ingredients[i].manually_adjusted}

\* A decimal number as a user writes one: an optional "-", a numeral or a
\* point and digits, and an optional exponent (e, an optional sign, digits).
IsInteger(s) == Len(s) > 0 /\ \A i \in 1..Len(s) : IsDigit(s[i])

IsMantissa(s) == IsNumeral(s) \/ (Len(s) > 1 /\ s[1] = "." /\ IsInteger(Tail(s)))

Unsigned(s) == IF Len(s) > 0 /\ s[1] \in {"-", "+"} THEN Tail(s) ELSE s

ExponentMarks(s) == {i \in 1..Len(s) : s[i] \in {"e", "E"}}

MantissaOf(s) ==
    IF ExponentMarks(s) = {} THEN s
    ELSE SubSeq(s, 1, (CHOOSE i \in ExponentMarks(s) : TRUE) - 1)

ExponentOf(s) ==
    IF ExponentMarks(s) = {} THEN <<"0">>
    ELSE SubSeq(s, (CHOOSE i \in ExponentMarks(s) : TRUE) + 1, Len(s))

IsSignedNumeral(s) ==
    LET u == IF Len(s) > 0 /\ s[1] = "-" THEN Tail(s) ELSE s
    IN  /\ Cardinality(ExponentMarks(u)) <= 1
        /\ IsMantissa(MantissaOf(u))
        /\ IsInteger(Unsigned(ExponentOf(u)))

SignedValue(s) ==
    LET u == IF s[1] = "-" THEN Tail(s) ELSE s
        ex == DigitsValue(Unsigned(ExponentOf(u)), 1, Len(Unsigned(ExponentOf(u))) + 1)
        scale == IF ExponentOf(u)[1] = "-" THEN Num(1, Pow10(ex)) ELSE FromInt(Pow10(ex))
    IN  Times(FromInt(IF s[1] = "-" THEN -1 ELSE 1),
              Times(NumeralValue(MantissaOf(u)), scale))

RawSizeBad == ~IsSignedNumeral(editPackageSize) \/ SignedValue(editPackageSize)[1] <= 0

RawPriceBad == ~IsSignedNumeral(editPackagePrice) \/ SignedValue(editPackagePrice)[1] < 0

\* C1: in every state that holds a recipe result, total_cost is the sum of
\* the costs of its lines (so after every saveEdit it is the re-sum over the
\* new lines).
C1_TotalIsSumOfCosts ==
    result # null => R.total_cost = SumOfCosts(R.ingredients)

\* Two lines have been overridden and the total is another one than the
\* service answered.
C1_Witness ==
    /\ result # null
    /\ Cardinality(Adjusted) >= 2
    /\ \A data \in Responses : R.total_cost # data.total_cost

\* C2: in every state that holds a recipe result, unit_cost times
\* yield_count is total_cost (unit_cost = total_cost / yield_count).
C2_UnitCostIsTotalOverYield ==
    result # null =>
        /\ R.yield_count > 0
        /\ IsFinite(R.unit_cost)
        /\ Times(R.unit_cost, FromInt(R.yield_count)) = R.total_cost

\* A line has been overridden and the unit cost has followed the new total.
C2_Witness ==
    /\ result # null
    /\ Adjusted # {}
    /\ \A data \in Responses : R.unit_cost # data.unit_cost

\* C3: a saveEdit(index) that raises no alert keeps the number and order of
\* the lines, the name, quantity, unit and note of every line, every line
\* but the one at index whole, and recipe_name and yield_count.
C3_SaveEditFrame ==
    [][\A index \in 1..MaxLines :
          (saveEdit(index) /\ alertMsg' = "") =>
              /\ result' # null
              /\ Len(result'[1].ingredients) = Len(R.ingredients)
              /\ \A i \in Indices :
                    /\ result'[1].ingredients[i].ingredient = R.ingredients[i].ingredient
                    /\ result'[1].ingredients[i].quantity = R.ingredients[i].quantity
                    /\ result'[1].ingredients[i].unit = R.ingredients[i].unit
                    /\ result'[1].ingredients[i].note = R.ingredients[i].note
                    /\ i # index => result'[1].ingredients[i] = R.ingredients[i]
              /\ result'[1].recipe_name = R.recipe_name
              /\ result'[1].yield_count = R.yield_count]_vars

\* A line that carries a note has been overridden next to a line that was
\* overridden before.
C3_Witness ==
    /\ result # null
    /\ \E i \in Adjusted : R.ingredients[i].note # ""
    /\ Cardinality(Adjusted) >= 2

\* C4: a saveEdit(index) with a size s > 0 and a price p >= 0 puts at index
\* a line with cost (p / s) * quantity, manually_adjusted true and
\* package_info {size: s written out followed by the unit of the line,
\* price: p, cost_per_unit: p / s, unit: the unit of the line}; for quantity
\* 60, size "500" and price "4.00" that is cost_per_unit 0.008 and cost 0.48.
C4_SaveEditLine ==
    [][\A index \in 1..MaxLines :
          (saveEdit(index) /\ ~RawSizeBad /\ ~RawPriceBad) =>
              LET s == SignedValue(editPackageSize)
                  p == SignedValue(editPackagePrice)
                  old == R.ingredients[index]
                  new == result'[1].ingredients[index]
              IN  /\ new.cost = Times(Divide(p, s), old.quantity)
                  /\ new.manually_adjusted
                  /\ new.package_info =
                        <<[size |-> NumberToString(s) \o old.unit, price |-> p,
                           cost_per_unit |-> Divide(p, s), unit |-> old.unit]>>
                  /\ (/\ editPackageSize = <<"5", "0", "0">>
                      /\ editPackagePrice = <<"4", ".", "0", "0">>
                      /\ old.quantity = FromInt(60))
                     => /\ new.cost = <<12, 25>>
                        /\ new.package_info[1].cost_per_unit = <<1, 125>>
                        /\ new.package_info[1].size = <<"5", "0", "0", "g">>]_vars

\* The line of 60 g has been overridden with a package of 500 for 4.00.
C4_Witness ==
    /\ result # null
    /\ \E i \in Adjusted :
          /\ R.ingredients[i].quantity = FromInt(60)
          /\ R.ingredients[i].cost = <<12, 25>>
          /\ R.ingredients[i].package_info =
                <<PackageInfo(<<"5", "0", "0", "g">>, <<4, 1>>, <<1, 125>>, STR_g)>>

\* C5: a saveEdit whose raw size is no decimal number or is <= 0 alerts
\* "Please enter a valid package size", whatever the raw price is, and
\* leaves the recipe result and the draft as they were.
C5_InvalidPackageSize ==
    [][\A index \in 1..MaxLines :
          (saveEdit(index) /\ RawSizeBad) =>
              /\ alertMsg' = MsgSize
              /\ result' = result
              /\ editingIndex' = editingIndex]_vars

\* The size alert was raised on a draft whose price is invalid too.
C5_Witness ==
    /\ alertMsg = MsgSize
    /\ editPackageSize = <<"0">>
    /\ editPackagePrice = <<"-", "1">>

\* C6: a saveEdit whose raw size is valid and whose raw price is no decimal
\* number or is < 0 alerts "Please enter a valid package price" and leaves
\* the recipe result as it was; with a valid size and a price of 0 it is
\* accepted and the line gets cost 0 and cost_per_unit 0.
C6_InvalidPackagePrice ==
    [][\A index \in 1..MaxLines :
          (saveEdit(index) /\ ~RawSizeBad) =>
              /\ RawPriceBad =>
                    /\ alertMsg' = MsgPrice
                    /\ result' = result
                    /\ editingIndex' = editingIndex
              /\ (~RawPriceBad /\ SignedValue(editPackagePrice) = FromInt(0)) =>
                    /\ alertMsg' = ""
                    /\ result'[1].ingredients[index].manually_adjusted
                    /\ result'[1].ingredients[index].cost = FromInt(0)
                    /\ result'[1].ingredients[index].package_info[1].cost_per_unit = FromInt(0)
                    /\ result'[1].ingredients[index].package_info[1].price = FromInt(0)]_vars

\* One line was saved with a price of 0 and the price alert was raised on a
\* draft with the price "-1".
C6_Witness ==
    /\ result # null
    /\ \E i \in Adjusted : R.ingredients[i].cost = FromInt(0)
    /\ alertMsg = MsgPrice
    /\ editPackagePrice = <<"-", "1">>

\* C7: no step is a startEdit or a saveEdit of a line without package_info,
\* and no step that keeps the recipe result changes such a line.
C7_NoPackageInfoNotEditable ==
    [][\A i \in Indices :
          ~hasPackageInfo(R.ingredients[i]) =>
              /\ ~startEdit(i)
              /\ ~saveEdit(i)
              /\ result' # null => result'[1].ingredients[i] = R.ingredients[i]]_vars

\* Another line of a result has been overridden, and the line without
\* package_info is as the service answered it.
C7_Witness ==
    /\ result # null
    /\ Adjusted # {}
    /\ \E i \in Indices :
          /\ ~hasPackageInfo(R.ingredients[i])
          /\ ~R.ingredients[i].manually_adjusted
          /\ R.ingredients[i] = Response2.ingredients[i]

\* C8: while a recipe result is kept (it is replaced only by a new
\* calculation, which sets it to null first), a line whose manually_adjusted
\* is true has it true after every step.
C8_ManuallyAdjustedMonotone ==
    [][(result # null /\ result' # null) =>
          /\ Len(result'[1].ingredients) = Len(R.ingredients)
          /\ \A i \in Adjusted : result'[1].ingredients[i].manually_adjusted]_vars

\* An overridden line is open in the edit form again and its save was
\* refused.
C8_Witness ==
    /\ result # null
    /\ \E i \in Adjusted : editFormShown(i)
    /\ alertMsg = MsgSize

\* C11: a cancelEdit leaves no line being edited and both draft texts
\* empty, whatever they held, and leaves the recipe result (every line,
\* total_cost, unit_cost) as it was; no edit form is rendered after it.
C11_CancelEditFrame ==
    [][cancelEdit =>
          /\ editingIndex' = noIndex
          /\ editPackageSize' = <<>>
          /\ editPackagePrice' = <<>>
          /\ result' = result
          /\ \A idx \in Indices : ~(editFormShown(idx))']_vars

\* The edit form is open on a line overridden before, with texts typed into
\* it that no save would accept: the state a cancelEdit discards.
C11_Witness ==
    /\ result # null
    /\ \E i \in Adjusted : editFormShown(i)
    /\ editPackageSize = <<"0">>
    /\ editPackagePrice = <<"-", "1">>
    /\ alertMsg = ""

\* The line an edit with size s and price p makes of a line, from the name,
\* quantity, unit and note of the line alone.
EditedLine(old, s, p) ==
    [ingredient |-> old.ingredient, quantity |-> old.quantity, unit |-> old.unit,
     note |-> old.note, cost |-> Times(Divide(p, s), old.quantity),
     manually_adjusted |-> TRUE,
     package_info |-> <<[size |-> NumberToString(s) \o old.unit, price |-> p,
                         cost_per_unit |-> Divide(p, s), unit |-> old.unit]>>]

EditedLines(res, index, s, p) ==
    [i \in 1..Len(res.ingredients) |->
        IF i = index THEN EditedLine(res.ingredients[i], s, p) ELSE res.ingredients[i]]

\* The recipe result an edit of line index makes of res: a function of the
\* other lines, the stable fields of the line, recipe_name, yield_count and
\* the two inputs.
EditedResult(res, index, s, p) ==
    [recipe_name |-> res.recipe_name,
     ingredients |-> EditedLines(res, index, s, p),
     total_cost |-> SumOfCosts(EditedLines(res, index, s, p)),
     yield_count |-> res.yield_count,
     unit_cost |-> Divide(SumOfCosts(EditedLines(res, index, s, p)),
                          FromInt(res.yield_count))]

\* C12: the recipe result after a saveEdit(index) that raises no alert is
\* EditedResult of the result before and the inputs (index, size, price): it
\* reads no counter or clock and nothing an earlier edit of the line wrote
\* (its cost, package_info, manually_adjusted), and the same saveEdit on
\* the result it produced gives that result again.
C12_SaveEditIdempotent ==
    [][\A index \in 1..MaxLines :
          (saveEdit(index) /\ alertMsg' = "") =>
              /\ ~RawSizeBad /\ ~RawPriceBad
              /\ result' = <<EditedResult(R, index, SignedValue(editPackageSize),
                                          SignedValue(editPackagePrice))>>
              /\ savedResult(result'[1], index, parseFloat(editPackageSize),
                             parseFloat(editPackagePrice)) = result'[1]]_vars

\* A line overridden before is open in the edit form with the very inputs
\* it was saved with: saving now is the second of two identical saves.
C12_Witness ==
    /\ result # null
    /\ ~RawSizeBad /\ ~RawPriceBad
    /\ \E i \in Adjusted :
          /\ editFormShown(i)
          /\ R = EditedResult(R, i, SignedValue(editPackageSize),
                               SignedValue(editPackagePrice))
          /\ \A data \in Responses :
                i <= Len(data.ingredients) => R.ingredients[i].cost # data.ingredients[i].cost

----------------------------------------------------------------------------
(* Properties of the size string and of the draft *)

\* C13: after a saveEdit(index) that raises no alert, the size string of
\* the line at index parses back through parsePackageSize to the package
\* size that was typed and to the unit of the line, and cost_per_unit is
\* price divided by that magnitude.
C13_SizeRoundTrip ==
    [][\A index \in 1..MaxLines :
          (saveEdit(index) /\ alertMsg' = "") =>
              LET info == result'[1].ingredients[index].package_info[1]
                  back == parsePackageSize(info.size)
              IN  /\ back # null
                  /\ back[1].value = SignedValue(editPackageSize)
                  /\ back[1].unit = R.ingredients[index].unit
                  /\ info.cost_per_unit = Divide(info.price, back[1].value)]_vars

\* The magnitude in the base unit of a size that is a numeral, white space
\* and a unit token, split at ju.
GrammarMagnitude(s, ju) ==
    Times(NumeralValue(SubSeq(s, 1, ju[1])),
          FromInt(TokenFactor(LowerStr(SubSeq(s, ju[2], Len(s))))))

\* s is digits, a point and exactly two digits.
IsTwoPlaces(s) ==
    /\ Len(s) >= 4
    /\ s[Len(s) - 2] = "."
    /\ \A i \in 1..Len(s) : i # Len(s) - 2 => IsDigit(s[i])

\* a is within half a cent of b.
NearestCent(a, b) ==
    LET diff == Plus(a, Times(FromInt(-1), b))
    IN  200 * Abs(diff[1]) <= diff[2]

\* C14: a startEdit(index) happens on a line with package_info only, makes
\* index the line being edited, keeps the recipe result, sets the raw size
\* to the magnitude the normalizer returns for package_info.size written
\* as a decimal number (for a size of the grammar that is the number times
\* 1000 for kg and l: "1kg" gives "1000") and sets the raw price to
\* package_info.price rounded to the cent with exactly two decimals.
C14_StartEditDraft ==
    [][\A index \in 1..MaxLines :
          startEdit(index) =>
              /\ hasPackageInfo(R.ingredients[index])
              /\ editingIndex' = index
              /\ result' = result
              /\ parsePackageSize(R.ingredients[index].package_info[1].size) # null
              /\ IsSignedNumeral(editPackageSize')
              /\ SignedValue(editPackageSize') =
                    parsePackageSize(R.ingredients[index].package_info[1].size)[1].value
              /\ \A ju \in Splits(R.ingredients[index].package_info[1].size) :
                    /\ IsNumeral(editPackageSize')
                    /\ NumeralValue(editPackageSize') =
                          GrammarMagnitude(R.ingredients[index].package_info[1].size, ju)
              /\ R.ingredients[index].package_info[1].size = <<"1", "k", "g">>
                    => editPackageSize' = <<"1", "0", "0", "0">>
              /\ IsTwoPlaces(editPackagePrice')
              /\ NearestCent(NumeralValue(editPackagePrice'),
                             R.ingredients[index].package_info[1].price)]_vars

\* Edit was pressed on the line whose package is "1kg" for 8: the form is
\* open on it with "1000" and "8.00".
C14_Witness ==
    /\ result # null
    /\ \E i \in Indices :
          /\ editFormShown(i)
          /\ R.ingredients[i].package_info[1].size = <<"1", "k", "g">>
          /\ R.ingredients[i].package_info[1].price = FromInt(8)
    /\ editPackageSize = <<"1", "0", "0", "0">>
    /\ editPackagePrice = <<"8", ".", "0", "0">>

\* The edit of line i is active: a result is on screen and i is the line
\* being edited.
EditActive(i) == result # null /\ editingIndex = i

Draft == <<editPackageSize, editPackagePrice>>

\* The step is a key stroke in one of the two inputs of the edit form.
Typing ==
    \/ \E text \in SizeTexts : setEditPackageSize(text)
    \/ \E text \in PriceTexts : setEditPackagePrice(text)

\* C15: there is one line being edited at most (editingIndex), it is a line
\* of the result on screen that has package_info, and in every step:
\* saveEdit(i) happens only while the edit of i is active and its form is
\* shown; the edit of i becomes active by startEdit(i) alone, which writes
\* the draft anew from line i; cancelEdit, a saveEdit that raises no alert
\* and a startEdit of another line end it; a step that replaces or removes
\* the result leaves no edit active (handleCalculate resets editingIndex
\* before the new result arrives); and while the edit of i stays active
\* the draft changes by typing into the form of line i only, not by
\* toggleExpanded.
C15_OneActiveDraft ==
    [][/\ \A i \in 1..MaxLines :
             /\ EditActive(i) => (i \in Indices /\ hasPackageInfo(R.ingredients[i]))
             /\ saveEdit(i) => (EditActive(i) /\ editFormShown(i))
             /\ (~EditActive(i) /\ EditActive(i)') => startEdit(i)
             /\ startEdit(i) =>
                   /\ \A j \in 1..MaxLines : EditActive(j)' <=> j = i
                   /\ SignedValue(editPackageSize') =
                         parsePackageSize(R.ingredients[i].package_info[1].size)[1].value
                   /\ editPackagePrice' = toFixed2(R.ingredients[i].package_info[1].price)
             /\ (saveEdit(i) /\ alertMsg' = "") => ~EditActive(i)'
             /\ (EditActive(i) /\ EditActive(i)' /\ Draft' # Draft)
                   => (editFormShown(i) /\ Typing)
             /\ toggleExpanded(i) => (Draft' = Draft /\ editingIndex' = editingIndex)
       /\ cancelEdit => \A i \in 1..MaxLines : ~EditActive(i)'
       /\ result' # result => \A i \in 1..MaxLines : ~EditActive(i)']_vars

\* On a result with a line overridden before, the edit of one line is
\* active with a typed size while the details of another line with
\* package_info are the ones expanded: no Save button is on screen.
C15_Witness ==
    /\ result # null
    /\ Adjusted # {}
    /\ \E i \in Indices : \E j \in Indices :
          /\ i # j
          /\ EditActive(i)
          /\ detailsShown(j)
    /\ editPackageSize = <<"0">>

====
